---- MODULE Spec2Model ----
(***************************************************************************)
(* Model of the Express application of this repository: the middleware     *)
(* stack of app.ts (CORS, body parsers, GET /, the /api/v1 router, the     *)
(* global error handler, the 404 responder), the ApiError class and the    *)
(* sendResponse helper.                                                    *)
(***************************************************************************)
EXTENDS Integers, Sequences, FiniteSets, TLC

(***************************************************************************)
(* Bounds                                                                  *)
(***************************************************************************)
\* number of requests the application serves in one behaviour
NumRequests == 1

\* connections open on the listener at one time
MaxConns == 2

\* unhandled rejections in one run of the process
MaxRejections == 2

\* SIGTERM signals in one run of the process
MaxSigterms == 2

Requests == 1..NumRequests

(***************************************************************************)
(* JavaScript values.  Every value is a record of the same shape so that   *)
(* values of different JavaScript types can be compared.                   *)
(***************************************************************************)
JsVal(t, b, n, s, items) == [t |-> t, b |-> b, n |-> n, s |-> s, items |-> items]

Undefined == JsVal("undefined", FALSE, 0, "", <<>>)
Null      == JsVal("null", FALSE, 0, "", <<>>)
Bool(b)   == JsVal("boolean", b, 0, "", <<>>)
Num(n)    == JsVal("number", FALSE, n, "", <<>>)
Str(s)    == JsVal("string", FALSE, 0, s, <<>>)
\* an object, identified by a name
Obj(s)    == JsVal("object", FALSE, 0, s, <<>>)
\* an array of { path, message } records
Arr(items) == JsVal("array", FALSE, 0, "", items)

\* JavaScript truthiness
Truthy(v) ==
    CASE v.t = "undefined" -> FALSE
      [] v.t = "null"      -> FALSE
      [] v.t = "boolean"   -> v.b
      [] v.t = "number"    -> v.n # 0
      [] v.t = "string"    -> v.s # ""
      [] OTHER             -> TRUE

\* a || b
JsOr(a, b) == IF Truthy(a) THEN a ELSE b

\* a && b
JsAnd(a, b) == IF Truthy(a) THEN b ELSE a

\* an object literal with no property
EmptyObject == [k \in {} |-> Undefined]

\* JSON.stringify of an object literal: a property whose value is undefined
\* is left out of the text
JsonStringify(obj) ==
    [k \in {f \in DOMAIN obj : obj[f].t # "undefined"} |-> obj[k]]

(***************************************************************************)
(* Thrown values                                                           *)
(***************************************************************************)
\* the stack Error.captureStackTrace records
CapturedStack == "stack@constructor"

\* new ApiError(statusCode, message, stack)
ApiError(statusCode, message, stack) ==
    [kind       |-> "ApiError",
     statusCode |-> statusCode,
     message    |-> message,
     stack      |-> IF stack # "" THEN Str(stack) ELSE Str(CapturedStack)]

\* new Error(message), with the stack captured where it was created
GenericError(message, stack) ==
    [kind |-> "Error", statusCode |-> -1, message |-> message, stack |-> Str(stack)]

\* an Error carrying a statusCode property that is not an ApiError (what the
\* body parsers raise for a malformed body)
HttpError(statusCode, message, stack) ==
    [kind |-> "Error", statusCode |-> statusCode, message |-> message, stack |-> Str(stack)]

\* a thrown value that is not an Error instance
NonError(kind, message, stack) ==
    [kind |-> kind, statusCode |-> -1, message |-> message, stack |-> stack]

NoError == NonError("none", "", Undefined)

ApiStatusCodes == {0, 403, 1000}
ApiMessages == {"", "Forbidden"}
ApiStacks == {"", "stackA"}

ApiErrors ==
    {ApiError(c, m, s) : c \in ApiStatusCodes, m \in ApiMessages, s \in ApiStacks}

GenericErrors ==
    {GenericError("", "stackA"), GenericError("boom", "stackA"),
     GenericError("boom", "stackB"), HttpError(400, "bad json", "stackA")}

NonErrors ==
    {NonError("null", "", Undefined), NonError("undefined", "", Undefined),
     NonError("string", "", Undefined), NonError("number", "", Undefined),
     NonError("object", "", Undefined),
     NonError("object", "boom", Str("stackA")),
     NonError("object", "boom", Str("stackB"))}

ErrorValues == ApiErrors \cup GenericErrors \cup NonErrors

\* error instanceof ApiError
InstanceOfApiError(error) == error.kind = "ApiError"

\* error instanceof Error
InstanceOfError(error) == error.kind \in {"ApiError", "Error"}

(***************************************************************************)
(* Requests and the configuration                                          *)
(***************************************************************************)
Envs == {"development", "production", "test"}
Methods == {"GET", "HEAD", "POST", "OPTIONS"}
Urls == {"/", "/unknown?q=1", "/api/v1/users"}

\* req.path for a req.originalUrl
PathOf(url) ==
    CASE url = "/"             -> "/"
      [] url = "/unknown?q=1"  -> "/unknown"
      [] url = "/api/v1/users" -> "/api/v1/users"

VARIABLES
    env,        \* config.env
    req,        \* per request: where it is in the middleware stack
    res,        \* per request: the response object
    consoleLog, \* per request: values written with console.log
    errorLog,   \* per request: values written with errorLogger.error
    srData,     \* the IApiResponse handed to sendResponse
    srRes,      \* the response object handed to sendResponse
    pg,         \* a call of calculatePagination: its options and its result
    ca,         \* a call of a handler wrapped by catchAsync
    srv         \* the process of server.ts and its listener

appVars == <<env, req, res, consoleLog, errorLog>>
sendVars == <<srData, srRes>>
helperVars == <<srData, srRes, pg, ca, srv>>
vars == <<env, req, res, consoleLog, errorLog, srData, srRes, pg, ca, srv>>

NoRequest == [stage |-> "idle", method |-> "GET", url |-> "/", error |-> NoError]

NoResponse ==
    [statusCode |-> 200, writes |-> 0, writer |-> "none",
     ctype |-> "none", text |-> "", json |-> EmptyObject]

\* an IApiResponse: a property the caller left out is undefined
ApiResponse(statusCode, success, message, meta, data) ==
    [statusCode |-> Num(statusCode), success |-> Bool(success),
     message |-> message, meta |-> meta, data |-> data]

NoData == ApiResponse(200, TRUE, Undefined, Undefined, Undefined)

\* IPaginationOptions: a property the caller left out is undefined
PaginationOptions(page, limit, sortBy, sortOrder) ==
    [page |-> page, limit |-> limit, sortBy |-> sortBy, sortOrder |-> sortOrder]

\* IOptionsResult
OptionsResult(page, limit, skip, sortBy, sortOrder) ==
    [page |-> page, limit |-> limit, skip |-> skip,
     sortBy |-> sortBy, sortOrder |-> sortOrder]

NoPagination ==
    [called  |-> FALSE,
     options |-> PaginationOptions(Undefined, Undefined, Undefined, Undefined),
     result  |-> OptionsResult(Undefined, Undefined, Undefined, Undefined, Undefined)]

\* what a wrapped handler does: it returns a value, returns a promise that is
\* fulfilled, rejected with error or never settled, or throws error; it may
\* write the response on the way
Handler(mode, error, responds) ==
    [mode |-> mode, error |-> error, responds |-> responds]

NoCall ==
    [pc        |-> "idle",
     handler   |-> Handler("returns", NoError, FALSE),
     nextCalls |-> <<>>,
     unhandled |-> <<>>,
     resWrites |-> 0]

\* the process before server.ts is run
NoProcess ==
    [state          |-> "loading",
     exitCode       |-> -1,
     server         |-> "unset",
     listener       |-> "none",
     conns          |-> 0,
     closeCallbacks |-> <<>>,
     sigterms       |-> 0,
     rejections     |-> 0,
     events         |-> <<>>]

\* no request is being served
AppIdle ==
    /\ req = [r \in Requests |-> NoRequest]
    /\ res = [r \in Requests |-> NoResponse]
    /\ consoleLog = [r \in Requests |-> <<>>]
    /\ errorLog = [r \in Requests |-> <<>>]

\* sendResponse is not in use
SendIdle == srData = NoData /\ srRes = NoResponse

\* calculatePagination is not in use
PaginationIdle == pg = NoPagination

\* no wrapped handler is in use
CatchIdle == ca = NoCall

\* server.ts has not been run
ServerIdle == srv = NoProcess

Init ==
    /\ env \in Envs
    /\ AppIdle
    /\ SendIdle
    /\ PaginationIdle
    /\ CatchIdle
    /\ ServerIdle

(***************************************************************************)
(* The response object                                                     *)
(***************************************************************************)
\* a response records the status and the body handed to res.send or res.json;
\* writing its head, Node's http.ServerResponse rejects a status code outside
\* 100..999 with a RangeError
ValidStatus(code) == code >= 100 /\ code <= 999

\* res.status(code): sets the status of the response
ResStatus(response, code) == [response EXCEPT !.statusCode = code]

\* res.json(obj) on a response whose status is valid
ResJson(response, writer, obj) ==
    [response EXCEPT !.writes = @ + 1, !.writer = writer,
                     !.ctype = "json", !.json = JsonStringify(obj)]

\* res.send(text)
ResSend(response, writer, text) ==
    [response EXCEPT !.writes = @ + 1, !.writer = writer,
                     !.ctype = "text", !.text = text]

\* res.end() with no body
ResEnd(response, writer) ==
    [response EXCEPT !.writes = @ + 1, !.writer = writer, !.ctype = "empty"]

(***************************************************************************)
(* globalErrorHandler                                                      *)
(***************************************************************************)
\* LogWrite with the choice of sink lost: both sinks are written
LogWriteBothSinks(environment, error) ==
    [console |-> <<error>>, errorLogger |-> <<error>>]

\* the log write: console.log in development, errorLogger.error otherwise
LogWrite(environment, error) ==
    IF environment = "development"
    THEN [console |-> <<error>>, errorLogger |-> <<>>]
    ELSE [console |-> <<>>, errorLogger |-> <<error>>]

\* Classify with the status code of an ApiError ignored
ClassifyStatusIgnored(error) ==
    IF InstanceOfError(error)
    THEN [statusCode    |-> 500,
          message       |-> error.message,
          errorMessages |-> IF error.message # ""
                            THEN <<[path |-> "", message |-> error.message]>>
                            ELSE <<>>]
    ELSE [statusCode    |-> 500,
          message       |-> "Something went wrong!",
          errorMessages |-> <<>>]

\* Classify with the fallback message of a non-Error value reported as a detail
ClassifyFallbackDetail(error) ==
    IF InstanceOfError(error)
    THEN [statusCode    |-> IF InstanceOfApiError(error) THEN error.statusCode ELSE 500,
          message       |-> error.message,
          errorMessages |-> IF error.message # ""
                            THEN <<[path |-> "", message |-> error.message]>>
                            ELSE <<>>]
    ELSE [statusCode    |-> 500,
          message       |-> "Something went wrong!",
          errorMessages |-> <<[path |-> "", message |-> "Something went wrong!"]>>]

\* Classify with the test for an empty message lost
ClassifyNoEmptyTest(error) ==
    IF InstanceOfError(error)
    THEN [statusCode    |-> IF InstanceOfApiError(error) THEN error.statusCode ELSE 500,
          message       |-> error.message,
          errorMessages |-> <<[path |-> "", message |-> error.message]>>]
    ELSE [statusCode    |-> 500,
          message       |-> "Something went wrong!",
          errorMessages |-> <<>>]

\* statusCode, message and errorMessages the handler derives from the error
Classify(error) ==
    IF InstanceOfApiError(error)
    THEN [statusCode    |-> error.statusCode,
          message       |-> error.message,
          errorMessages |-> IF error.message # ""
                            THEN <<[path |-> "", message |-> error.message]>>
                            ELSE <<>>]
    ELSE IF InstanceOfError(error)
    THEN [statusCode    |-> 500,
          message       |-> error.message,
          errorMessages |-> IF error.message # ""
                            THEN <<[path |-> "", message |-> error.message]>>
                            ELSE <<>>]
    ELSE [statusCode    |-> 500,
          message       |-> "Something went wrong!",
          errorMessages |-> <<>>]

\* StackField with the test of the environment lost
StackFieldAlways(environment, error) == error.stack

\* stack: config.env === 'development' && error?.stack
StackField(environment, error) ==
    JsAnd(Bool(environment = "development"), error.stack)

\* the object literal handed to res.json
GlobalErrorBody(environment, error) ==
    [success       |-> Bool(FALSE),
     message       |-> Str(Classify(error).message),
     errorMessages |-> Arr(Classify(error).errorMessages),
     stack         |-> StackField(environment, error)]

\* NotFoundBody reporting req.path in place of req.originalUrl
NotFoundBodyPath(originalUrl) ==
    [success       |-> Bool(FALSE),
     message       |-> Str("Not Found"),
     errorMessages |-> Arr(<<[path |-> PathOf(originalUrl), message |-> "API Not Found"]>>)]

\* the body of the 404 responder
NotFoundBody(originalUrl) ==
    [success       |-> Bool(FALSE),
     message       |-> Str("Not Found"),
     errorMessages |-> Arr(<<[path |-> originalUrl, message |-> "API Not Found"]>>)]

(***************************************************************************)
(* The middleware stack of app.ts                                          *)
(***************************************************************************)
\* a request arrives
Receive(r, method, url) ==
    /\ req[r].stage = "idle"
    /\ req' = [req EXCEPT ![r] = [stage |-> "cors", method |-> method,
                                  url |-> url, error |-> NoError]]
    /\ UNCHANGED <<env, res, consoleLog, errorLog, helperVars>>

\* app.use(cors()): an OPTIONS request is answered as a preflight with 204
\* and no body; any other request is passed on
Cors(r) ==
    /\ req[r].stage = "cors"
    /\ IF req[r].method = "OPTIONS"
       THEN /\ res' = [res EXCEPT ![r] = ResEnd(ResStatus(@, 204), "cors")]
            /\ req' = [req EXCEPT ![r].stage = "done"]
       ELSE /\ req' = [req EXCEPT ![r].stage = "parse"]
            /\ UNCHANGED res
    /\ UNCHANGED <<env, consoleLog, errorLog, helperVars>>

\* app.use(express.json()), app.use(express.urlencoded()): the body is parsed
BodyParsers(r) ==
    /\ req[r].stage = "parse"
    /\ req' = [req EXCEPT ![r].stage = "route"]
    /\ UNCHANGED <<env, res, consoleLog, errorLog, helperVars>>

\* request processing ahead of the error handler fails: it throws, or calls
\* next(error), with any value
ForwardError(r, error) ==
    /\ req[r].stage = "parse"
    /\ req' = [req EXCEPT ![r].stage = "error", ![r].error = error]
    /\ UNCHANGED <<env, res, consoleLog, errorLog, helperVars>>

\* app.get('/'): matches GET / and, as no HEAD route is declared, HEAD /
MatchesRoot(method, url) == method \in {"GET", "HEAD"} /\ PathOf(url) = "/"

RootRoute(r) ==
    /\ req[r].stage = "route"
    /\ MatchesRoot(req[r].method, req[r].url)
    /\ res' = [res EXCEPT ![r] = ResSend(@, "root", "Hello World!")]
    /\ req' = [req EXCEPT ![r].stage = "done"]
    /\ UNCHANGED <<env, consoleLog, errorLog, helperVars>>

\* app.use('/api/v1', routes): the router has no route, so every request
\* falls through it; the error handler is skipped when there is no error
ApiRoutes(r) ==
    /\ req[r].stage = "route"
    /\ ~MatchesRoot(req[r].method, req[r].url)
    /\ req' = [req EXCEPT ![r].stage = "notfound"]
    /\ UNCHANGED <<env, res, consoleLog, errorLog, helperVars>>

\* app.use(globalErrorHandler)
GlobalErrorHandler(r) ==
    /\ req[r].stage = "error"
    /\ LET error  == req[r].error
           log    == LogWrite(env, error)
           status == Classify(error).statusCode
       IN  /\ consoleLog' = [consoleLog EXCEPT ![r] = @ \o log.console]
           /\ errorLog' = [errorLog EXCEPT ![r] = @ \o log.errorLogger]
           /\ IF ValidStatus(status)
              THEN /\ res' = [res EXCEPT ![r] =
                                ResJson(ResStatus(@, status), "globalErrorHandler",
                                        GlobalErrorBody(env, error))]
                   /\ req' = [req EXCEPT ![r].stage = "done"]
              ELSE /\ res' = [res EXCEPT ![r] = ResStatus(@, status)]
                   /\ req' = [req EXCEPT ![r].stage = "threw"]
    /\ UNCHANGED <<env, helperVars>>

\* the 404 responder
NotFound(r) ==
    /\ req[r].stage = "notfound"
    /\ res' = [res EXCEPT ![r] =
                 ResJson(ResStatus(@, 404), "notFound", NotFoundBody(req[r].url))]
    /\ req' = [req EXCEPT ![r].stage = "done"]
    /\ UNCHANGED <<env, consoleLog, errorLog, helperVars>>

Next ==
    \/ \E r \in Requests, method \in Methods, url \in Urls : Receive(r, method, url)
    \/ \E r \in Requests : Cors(r)
    \/ \E r \in Requests : BodyParsers(r)
    \/ \E r \in Requests, error \in ErrorValues : ForwardError(r, error)
    \/ \E r \in Requests : RootRoute(r)
    \/ \E r \in Requests : ApiRoutes(r)
    \/ \E r \in Requests : GlobalErrorHandler(r)
    \/ \E r \in Requests : NotFound(r)

Spec == Init /\ [][Next]_vars

(***************************************************************************)
(* sendResponse                                                            *)
(***************************************************************************)
SendStatusCodes == {200, 404}
SendMessages == {Undefined, Null, Str(""), Str("ok")}
SendMetas == {Undefined, Obj("meta")}
SendDatas == {Undefined, Null, Num(0), Bool(FALSE), Str(""), Str("x"), Obj("user")}

\* the responseData object sendResponse builds
ResponseData(data) ==
    [statusCode |-> data.statusCode,
     success    |-> data.success,
     message    |-> JsOr(data.message, Null),
     meta       |-> JsOr(JsOr(data.meta, Null), Undefined),
     data       |-> JsOr(data.data, Null)]

InitSend ==
    /\ env = "production"
    /\ AppIdle
    /\ PaginationIdle
    /\ CatchIdle
    /\ ServerIdle
    /\ srData \in {ApiResponse(c, ok, m, meta, d) :
                     c \in SendStatusCodes, ok \in BOOLEAN, m \in SendMessages,
                     meta \in SendMetas, d \in SendDatas}
    /\ srRes = NoResponse

\* sendResponse(res, data)
SendResponse ==
    /\ srRes.writes = 0
    /\ srRes' = IF ValidStatus(srData.statusCode.n)
                THEN ResJson(ResStatus(srRes, srData.statusCode.n), "sendResponse",
                             ResponseData(srData))
                ELSE ResStatus(srRes, srData.statusCode.n)
    /\ UNCHANGED <<appVars, srData, pg, ca, srv>>

NextSend == SendResponse

SpecSend == InitSend /\ [][NextSend]_vars

(***************************************************************************)
(* calculatePagination                                                     *)
(***************************************************************************)
\* the number NaN: it is falsy, and every sum or product with it is NaN
NaN == JsVal("number", FALSE, 0, "NaN", <<>>)

IsNaN(v) == v.t = "number" /\ v.s = "NaN"

\* Number(s) for a string: the number it spells, 0 for the empty string and
\* NaN for any other text
StringToNumber(s) ==
    CASE s = ""   -> Num(0)
      [] s = "0"  -> Num(0)
      [] s = "2"  -> Num(2)
      [] s = "5"  -> Num(5)
      [] s = "-1" -> Num(-1)
      [] OTHER    -> NaN

\* Number(v)
ToNumber(v) ==
    CASE v.t = "number"    -> v
      [] v.t = "string"    -> StringToNumber(v.s)
      [] v.t = "boolean"   -> Num(IF v.b THEN 1 ELSE 0)
      [] v.t = "null"      -> Num(0)
      [] OTHER             -> NaN

\* a - b on numbers
JsSub(a, b) == IF IsNaN(a) \/ IsNaN(b) THEN NaN ELSE Num(a.n - b.n)

\* a * b on numbers
JsMul(a, b) == IF IsNaN(a) \/ IsNaN(b) THEN NaN ELSE Num(a.n * b.n)

\* calculatePagination with skip computed from the page, not the page before it
CalculatePaginationSkipFromPage(options) ==
    LET page  == ToNumber(JsOr(options.page, Num(1)))
        limit == ToNumber(JsOr(options.limit, Num(10)))
    IN  OptionsResult(page, limit, JsMul(page, limit),
                      JsOr(options.sortBy, Str("createdAt")),
                      JsOr(options.sortOrder, Str("desc")))

\* calculatePagination(options)
CalculatePagination(options) ==
    LET page  == ToNumber(JsOr(options.page, Num(1)))
        limit == ToNumber(JsOr(options.limit, Num(10)))
        skip  == JsMul(JsSub(page, Num(1)), limit)
    IN  OptionsResult(page, limit, skip,
                      JsOr(options.sortBy, Str("createdAt")),
                      JsOr(options.sortOrder, Str("desc")))

\* options as they come from a caller or from a query string
PageInputs ==
    {Undefined, Num(0), Num(1), Num(2), Num(-1), Str("2"), Str("0"), Str("abc")}
LimitInputs == {Undefined, Num(0), Num(5), Num(-1), Str("5"), Str("abc")}
SortByInputs == {Undefined, Str(""), Str("name")}
SortOrderInputs == {Undefined, Str("asc"), Str("desc")}

InitPagination ==
    /\ env = "production"
    /\ AppIdle
    /\ SendIdle
    /\ CatchIdle
    /\ ServerIdle
    /\ pg \in {[called  |-> FALSE,
                options |-> PaginationOptions(p, l, by, order),
                result  |-> NoPagination.result] :
                  p \in PageInputs, l \in LimitInputs,
                  by \in SortByInputs, order \in SortOrderInputs}

\* a caller runs paginationHelpers.calculatePagination(options)
Calculate ==
    /\ ~pg.called
    /\ pg' = [pg EXCEPT !.called = TRUE, !.result = CalculatePagination(pg.options)]
    /\ UNCHANGED <<appVars, sendVars, ca, srv>>

NextPagination == Calculate

SpecPagination == InitPagination /\ [][NextPagination]_vars

(***************************************************************************)
(* catchAsync                                                              *)
(***************************************************************************)
HandlerModes == {"returns", "resolves", "rejects", "throws", "pending"}

Handlers ==
    {Handler(mode, NoError, responds) :
        mode \in {"returns", "resolves", "pending"}, responds \in BOOLEAN}
    \cup
    {Handler(mode, error, responds) :
        mode \in {"rejects", "throws"}, error \in ErrorValues, responds \in BOOLEAN}

\* what becomes of a failure: the calls of next it leads to and the
\* rejections nothing handles
Outcome(nextCalls, unhandled) == [nextCalls |-> nextCalls, unhandled |-> unhandled]

\* catch (error) { next(error) }
Catch(error) == Outcome(<<error>>, <<>>)

\* the handler's promise returned without being awaited: its rejection
\* passes by the try block
OnRejectedNotAwaited(error) == Outcome(<<>>, <<error>>)

\* a rejection of the awaited promise is thrown inside the try block
OnRejected(error) == Catch(error)

\* an exception fn throws while it is called inside the try block
OnThrown(error) == Catch(error)

InitCatchAsync ==
    /\ env = "production"
    /\ AppIdle
    /\ SendIdle
    /\ PaginationIdle
    /\ ServerIdle
    /\ ca \in {[NoCall EXCEPT !.handler = h] : h \in Handlers}

\* the wrapped handler is called: fn(req, res, next) runs up to its return
CallWrapped ==
    /\ ca.pc = "idle"
    /\ IF ca.handler.mode = "throws"
       THEN ca' = [ca EXCEPT
                     !.pc = "done",
                     !.resWrites = @ + (IF ca.handler.responds THEN 1 ELSE 0),
                     !.nextCalls = @ \o OnThrown(ca.handler.error).nextCalls,
                     !.unhandled = @ \o OnThrown(ca.handler.error).unhandled]
       ELSE ca' = [ca EXCEPT !.pc = "awaiting"]
    /\ UNCHANGED <<appVars, sendVars, pg, srv>>

\* the awaited value settles and the wrapper resumes
Settle ==
    /\ ca.pc = "awaiting"
    /\ ca.handler.mode # "pending"
    /\ IF ca.handler.mode = "rejects"
       THEN ca' = [ca EXCEPT
                     !.pc = "done",
                     !.resWrites = @ + (IF ca.handler.responds THEN 1 ELSE 0),
                     !.nextCalls = @ \o OnRejected(ca.handler.error).nextCalls,
                     !.unhandled = @ \o OnRejected(ca.handler.error).unhandled]
       ELSE ca' = [ca EXCEPT
                     !.pc = "done",
                     !.resWrites = @ + (IF ca.handler.responds THEN 1 ELSE 0)]
    /\ UNCHANGED <<appVars, sendVars, pg, srv>>

NextCatchAsync == CallWrapped \/ Settle

\* a settled promise resumes the function awaiting it
SpecCatchAsync ==
    InitCatchAsync /\ [][NextCatchAsync]_vars
      /\ WF_vars(CallWrapped) /\ WF_vars(Settle)

(***************************************************************************)
(* server.ts: the process and its listener                                 *)
(*                                                                         *)
(* srv.state is "loading" until main() has run, then "running", then       *)
(* "exited".  srv.listener is "none", "binding" (app.listen returned, the  *)
(* bind is not reported yet), "listening", "closing" (server.close was     *)
(* called, connections are still open), "closed" or "failed".              *)
(* srv.events is the trace of what the process did, in order.              *)
(***************************************************************************)
\* one thing the process does: a write to a logger ("infoLog", "errorLog"),
\* a call of server.close ("close"; arg is the rejection whose callback is
\* passed, 0 for none), the completion of the close ("closed") or the end of
\* the process ("exit"; arg is the exit status)
Ev(kind, src, arg) == [kind |-> kind, src |-> src, arg |-> arg]

\* the handler of 'uncaughtException' with process.exit left out
UncaughtExceptionHandlerLogOnly ==
    <<Ev("errorLog", "uncaughtException", 0)>>

\* process.on('uncaughtException', ...)
UncaughtExceptionHandler ==
    <<Ev("errorLog", "uncaughtException", 0), Ev("exit", "uncaughtException", 1)>>

\* the catch block of main
MainCatch == <<Ev("errorLog", "main", 0)>>

\* the callback of app.listen
ListeningCallback == <<Ev("infoLog", "listening", 0)>>

\* the callback passed to server.close with process.exit left out
CloseCallbackLogOnly(k) == <<Ev("errorLog", "unhandledRejection", k)>>

\* the callback the 'unhandledRejection' handler passes to server.close
CloseCallback(k) ==
    <<Ev("errorLog", "unhandledRejection", k), Ev("exit", "unhandledRejection", 1)>>

\* the 'unhandledRejection' handler logging before it closes the listener
UnhandledRejectionHandlerLogFirst(server, k) ==
    IF server = "set"
    THEN <<Ev("errorLog", "unhandledRejection", k), Ev("close", "unhandledRejection", k)>>
    ELSE <<Ev("exit", "unhandledRejection", 1)>>

\* the 'unhandledRejection' handler logging when server is unset
UnhandledRejectionHandlerLogUnset(server, k) ==
    IF server = "set"
    THEN <<Ev("close", "unhandledRejection", k)>>
    ELSE <<Ev("errorLog", "unhandledRejection", k), Ev("exit", "unhandledRejection", 1)>>

\* process.on('unhandledRejection', ...) for the k-th rejection
UnhandledRejectionHandler(server, k) ==
    IF server = "set"
    THEN <<Ev("close", "unhandledRejection", k)>>
    ELSE <<Ev("exit", "unhandledRejection", 1)>>

\* the SIGTERM handler with the call of server.close left out
SigtermHandlerNoClose(server) == <<Ev("infoLog", "SIGTERM", 0)>>

\* process.on('SIGTERM', ...)
SigtermHandler(server) ==
    <<Ev("infoLog", "SIGTERM", 0)>>
      \o (IF server = "set" THEN <<Ev("close", "SIGTERM", 0)>> ELSE <<>>)

\* the process after it has done e
Do(p, e) ==
    CASE e.kind \in {"infoLog", "errorLog"} ->
           [p EXCEPT !.events = Append(@, e)]
      [] e.kind = "close" ->
           [p EXCEPT !.listener = IF @ = "listening" THEN "closing" ELSE @,
                     !.closeCallbacks = IF e.arg > 0 THEN Append(@, e.arg) ELSE @,
                     !.events = Append(@, e)]
      [] e.kind = "exit" ->
           [p EXCEPT !.state = "exited", !.exitCode = e.arg,
                     !.events = Append(@, e)]

\* the process after it has run the statements es in order; process.exit
\* ends the run
RECURSIVE Run(_, _)
Run(p, es) ==
    IF es = <<>> \/ p.state = "exited"
    THEN p
    ELSE Run(Do(p, Head(es)), Tail(es))

\* the statements of the close callbacks of the rejections ks, in the order
\* they were registered
RECURSIVE CloseCallbacks(_)
CloseCallbacks(ks) ==
    IF ks = <<>> THEN <<>> ELSE CloseCallback(Head(ks)) \o CloseCallbacks(Tail(ks))

InitServer ==
    /\ env = "production"
    /\ AppIdle
    /\ SendIdle
    /\ PaginationIdle
    /\ CatchIdle
    /\ srv = NoProcess

\* server.ts is run: the handlers are registered and main() calls
\* app.listen, which returns the server or throws
Main(listenThrows) ==
    /\ srv.state = "loading"
    /\ srv' = IF listenThrows
              THEN Run([srv EXCEPT !.state = "running"], MainCatch)
              ELSE [srv EXCEPT !.state = "running", !.server = "set",
                               !.listener = "binding"]
    /\ UNCHANGED <<appVars, sendVars, pg, ca>>

\* the port is bound: the callback of app.listen runs
BindOk ==
    /\ srv.state = "running"
    /\ srv.listener = "binding"
    /\ srv' = Run([srv EXCEPT !.listener = "listening"], ListeningCallback)
    /\ UNCHANGED <<appVars, sendVars, pg, ca>>

\* the bind fails: the server emits 'error', which nothing listens to, so it
\* is raised as an uncaught exception
BindFail ==
    /\ srv.state = "running"
    /\ srv.listener = "binding"
    /\ srv' = Run([srv EXCEPT !.listener = "failed"], UncaughtExceptionHandler)
    /\ UNCHANGED <<appVars, sendVars, pg, ca>>

\* a client connects
ConnOpen ==
    /\ srv.state = "running"
    /\ srv.listener = "listening"
    /\ srv.conns < MaxConns
    /\ srv' = [srv EXCEPT !.conns = @ + 1]
    /\ UNCHANGED <<appVars, sendVars, pg, ca>>

\* a connection ends
ConnEnd ==
    /\ srv.state = "running"
    /\ srv.conns > 0
    /\ srv' = [srv EXCEPT !.conns = @ - 1]
    /\ UNCHANGED <<appVars, sendVars, pg, ca>>

\* the process receives SIGTERM
Sigterm ==
    /\ srv.state = "running"
    /\ srv.listener # "binding"
    /\ srv.sigterms < MaxSigterms
    /\ srv' = Run([srv EXCEPT !.sigterms = @ + 1], SigtermHandler(srv.server))
    /\ UNCHANGED <<appVars, sendVars, pg, ca>>

\* a promise is rejected and nothing handles the rejection
UnhandledRejection ==
    /\ srv.state = "running"
    /\ srv.listener # "binding"
    /\ srv.rejections < MaxRejections
    /\ srv' = Run([srv EXCEPT !.rejections = @ + 1],
                  UnhandledRejectionHandler(srv.server, srv.rejections + 1))
    /\ UNCHANGED <<appVars, sendVars, pg, ca>>

\* an exception is thrown and nothing catches it
UncaughtException ==
    /\ srv.state = "running"
    /\ srv' = Run(srv, UncaughtExceptionHandler)
    /\ UNCHANGED <<appVars, sendVars, pg, ca>>

\* the server emits 'close': the listener was closed and its last connection
\* has ended, or server.close was called on a server already closed; the
\* callbacks passed to server.close run in order
EmitClose ==
    /\ srv.state = "running"
    /\ srv.conns = 0
    /\ \/ srv.listener = "closing"
       \/ srv.listener = "closed" /\ srv.closeCallbacks # <<>>
    /\ srv' = Run([srv EXCEPT
                     !.listener = "closed",
                     !.closeCallbacks = <<>>,
                     !.events = IF srv.listener = "closing"
                                THEN Append(@, Ev("closed", "server", 0))
                                ELSE @],
                  CloseCallbacks(srv.closeCallbacks))
    /\ UNCHANGED <<appVars, sendVars, pg, ca>>

\* nothing keeps the event loop alive: the process ends with status 0
NaturalExit ==
    /\ srv.state = "running"
    /\ srv.listener \in {"none", "closed"}
    /\ srv.conns = 0
    /\ srv.closeCallbacks = <<>>
    /\ srv' = Run(srv, <<Ev("exit", "natural", 0)>>)
    /\ UNCHANGED <<appVars, sendVars, pg, ca>>

NextServer ==
    \/ \E listenThrows \in BOOLEAN : Main(listenThrows)
    \/ BindOk
    \/ BindFail
    \/ ConnOpen
    \/ ConnEnd
    \/ Sigterm
    \/ UnhandledRejection
    \/ UncaughtException
    \/ EmitClose
    \/ NaturalExit

\* the event loop runs what is due: the module, the report of the bind, the
\* 'close' event and the end of the process; an open connection ends
SpecServer ==
    InitServer /\ [][NextServer]_vars
      /\ WF_vars(\E listenThrows \in BOOLEAN : Main(listenThrows))
      /\ WF_vars(BindOk \/ BindFail)
      /\ WF_vars(ConnEnd)
      /\ WF_vars(EmitClose)
      /\ WF_vars(NaturalExit)

(***************************************************************************)
(* Properties of globalErrorHandler                                        *)
(***************************************************************************)
\* the handler ran for request r
Handled(r) == req[r].stage \in {"done", "threw"} /\ req[r].error.kind # "none"

\* the handler wrote the response of request r
Responded(r) == res[r].writer = "globalErrorHandler"

C2_OneResponseOneLogNoThrow ==
    \A r \in Requests :
        Handled(r) =>
            /\ req[r].stage # "threw"
            /\ res[r].writes = 1
            /\ Len(consoleLog[r]) + Len(errorLog[r]) = 1

\* C3: the raw error is logged to exactly one sink: console.log when
\* config.env is 'development', errorLogger.error otherwise
C3_OneSinkByEnv ==
    \A r \in Requests :
        Handled(r) =>
            IF env = "development"
            THEN consoleLog[r] = <<req[r].error>> /\ errorLog[r] = <<>>
            ELSE consoleLog[r] = <<>> /\ errorLog[r] = <<req[r].error>>

C3_Witness ==
    \E r \in Requests :
        Handled(r) /\ env = "production" /\ Len(errorLog[r]) = 1

\* C4: a generic Error that is not an ApiError gets status 500 and its
\* message when that message is non-empty, the fixed fallback otherwise
C4_GenericErrorMessage ==
    \A r \in Requests :
        (Responded(r) /\ req[r].error.kind = "Error") =>
            /\ res[r].statusCode = 500
            /\ res[r].json.message =
                 Str(IF req[r].error.message # ""
                     THEN req[r].error.message
                     ELSE "Something went wrong!")

\* C5: a value that is not an Error instance gets status 500, the message
\* 'Something went wrong!' and an empty errorMessages list
C5_NonErrorValue ==
    \A r \in Requests :
        (Handled(r) /\ req[r].error.kind \notin {"ApiError", "Error"}) =>
            /\ Responded(r)
            /\ res[r].statusCode = 500
            /\ res[r].json.message = Str("Something went wrong!")
            /\ res[r].json.errorMessages = Arr(<<>>)

C5_Witness ==
    \E r \in Requests :
        /\ Responded(r)
        /\ req[r].error.kind = "null"
        /\ res[r].statusCode = 500

\* C6 as stated: errorMessages is [{path: '', message}] with the message of
\* the response whenever that message is non-empty, and empty exactly when
\* the message of the response is empty
C6_DetailIffMessage ==
    \A r \in Requests :
        Responded(r) =>
            res[r].json.errorMessages =
                Arr(IF res[r].json.message.s # ""
                    THEN <<[path |-> "", message |-> res[r].json.message.s]>>
                    ELSE <<>>)

\* C6 amended: errorMessages is [{path: '', message}] with the message of the
\* response when the value is an Error instance with a non-empty message, and
\* is empty otherwise: for an Error with an empty message and for a value that
\* is not an Error, whose response carries the non-empty fallback message
C6_DetailIffErrorMessage ==
    \A r \in Requests :
        Responded(r) =>
            IF req[r].error.kind \in {"ApiError", "Error"} /\ req[r].error.message # ""
            THEN /\ res[r].json.message = Str(req[r].error.message)
                 /\ res[r].json.errorMessages =
                      Arr(<<[path |-> "", message |-> res[r].json.message.s]>>)
            ELSE /\ res[r].json.errorMessages = Arr(<<>>)
                 /\ req[r].error.kind \notin {"ApiError", "Error"}
                      => res[r].json.message.s # ""

C6_Witness ==
    \E r \in Requests :
        /\ Responded(r)
        /\ req[r].error.kind = "object"
        /\ res[r].json.message.s # ""
        /\ res[r].json.errorMessages = Arr(<<>>)

\* two thrown values that differ at most in their stack
SameButStack(e1, e2) ==
    /\ e1.kind = e2.kind
    /\ e1.statusCode = e2.statusCode
    /\ e1.message = e2.message

\* C7: the stack field carries the stack of the error if and only if
\* config.env is 'development'; in every other environment it is false, and
\* the body is the one any error differing only in its stack produces
C7_StackOnlyInDevelopment ==
    \A r \in Requests :
        Responded(r) =>
            /\ env = "development" =>
                 IF req[r].error.stack = Undefined
                 THEN "stack" \notin DOMAIN res[r].json
                 ELSE /\ "stack" \in DOMAIN res[r].json
                      /\ res[r].json.stack = req[r].error.stack
            /\ env # "development" =>
                 /\ "stack" \in DOMAIN res[r].json
                 /\ res[r].json.stack = Bool(FALSE)
                 /\ \A e2 \in ErrorValues :
                        SameButStack(req[r].error, e2) =>
                            res[r].json = JsonStringify(GlobalErrorBody(env, e2))
                 /\ \A r2 \in Requests :
                        (Responded(r2) /\ SameButStack(req[r].error, req[r2].error)) =>
                            res[r].json = res[r2].json

C7_Witness ==
    \E r \in Requests :
        /\ Responded(r)
        /\ env = "production"
        /\ req[r].error = GenericError("boom", "stackB")
        /\ res[r].json.stack = Bool(FALSE)

(***************************************************************************)
(* Properties of the application                                           *)
(***************************************************************************)
\* the body the 404 responder is to write for a request
ExpectedNotFound(r) ==
    /\ res[r].statusCode = 404
    /\ res[r].writes = 1
    /\ res[r].ctype = "json"
    /\ DOMAIN res[r].json = {"success", "message", "errorMessages"}
    /\ res[r].json.success = Bool(FALSE)
    /\ res[r].json.message = Str("Not Found")
    /\ res[r].json.errorMessages =
         Arr(<<[path |-> req[r].url, message |-> "API Not Found"]>>)

EnvelopeFields == {"statusCode", "success", "message", "meta", "data"}

\* C9: every response body of GET /, the global error handler and the 404
\* responder is a JSON object with the properties of the envelope
C9_EveryBodyIsEnvelope ==
    \A r \in Requests :
        res[r].writer \in {"root", "globalErrorHandler", "notFound"} =>
            /\ res[r].ctype = "json"
            /\ EnvelopeFields \subseteq DOMAIN res[r].json

(***************************************************************************)
(* Properties of sendResponse                                              *)
(***************************************************************************)
\* C10: each of message, meta and data the caller left out is an explicit
\* null in the body; none of the three is absent from it
C10_OmittedIsNull ==
    srRes.writes = 1 =>
        \A f \in {"message", "meta", "data"} :
            /\ f \in DOMAIN srRes.json
            /\ srData[f] = Undefined => srRes.json[f] = Null

\* JSON.parse of a body, read at property f: a property the text does not
\* carry reads as undefined
JsonParseField(json, f) == IF f \in DOMAIN json THEN json[f] ELSE Undefined

\* C11: parsing the body sendResponse wrote yields exactly the statusCode,
\* success, message, meta and data that were supplied, falsy values included
C11_RoundTrip ==
    srRes.writes = 1 =>
        \A f \in EnvelopeFields :
            srData[f] # Undefined => JsonParseField(srRes.json, f) = srData[f]

(***************************************************************************)
(* Properties of calculatePagination                                       *)
(***************************************************************************)
\* C12: skip is (page - 1) * limit over the resolved page and limit (NaN when
\* one of them is NaN), and each omitted option resolves to its default
C12_SkipAndDefaults ==
    pg.called =>
        /\ IF IsNaN(pg.result.page) \/ IsNaN(pg.result.limit)
           THEN IsNaN(pg.result.skip)
           ELSE pg.result.skip = Num((pg.result.page.n - 1) * pg.result.limit.n)
        /\ pg.options.page = Undefined => pg.result.page = Num(1)
        /\ pg.options.limit = Undefined => pg.result.limit = Num(10)
        /\ pg.options.sortBy = Undefined => pg.result.sortBy = Str("createdAt")
        /\ pg.options.sortOrder = Undefined => pg.result.sortOrder = Str("desc")

C12_Witness ==
    /\ pg.called
    /\ pg.options = PaginationOptions(Num(2), Num(5), Undefined, Undefined)
    /\ pg.result = OptionsResult(Num(2), Num(5), Num(5), Str("createdAt"), Str("desc"))

\* C13: for every input the resolved page is an integer >= 1, the limit an
\* integer >= 1 and skip an integer >= 0
C13_PositivePageAndLimit ==
    pg.called =>
        /\ ~IsNaN(pg.result.page) /\ pg.result.page.n >= 1
        /\ ~IsNaN(pg.result.limit) /\ pg.result.limit.n >= 1
        /\ ~IsNaN(pg.result.skip) /\ pg.result.skip.n >= 0

(***************************************************************************)
(* Properties of catchAsync                                                *)
(***************************************************************************)
\* the wrapped handler fails: it throws or its promise is rejected
Fails == ca.handler.mode \in {"throws", "rejects"}

\* C14, in every state: no failure escapes as an unhandled rejection; once
\* the wrapper is done, a failure was handed to next exactly once with the
\* same value, and after a success next was not called and the response is as
\* the handler left it
C14_State ==
    /\ ca.unhandled = <<>>
    /\ (ca.pc = "done" /\ Fails) => ca.nextCalls = <<ca.handler.error>>
    /\ (ca.pc = "done" /\ ~Fails) =>
          /\ ca.nextCalls = <<>>
          /\ ca.resWrites = IF ca.handler.responds THEN 1 ELSE 0
    /\ ca.pc # "done" => ca.nextCalls = <<>>

\* C14: every failure of a wrapped handler, thrown or rejected, is forwarded
\* to next with the same value and the request is not left hanging; a success
\* passes through
C14_FailureForwarded ==
    /\ []C14_State
    /\ (ca.pc = "idle" /\ Fails) ~> (ca.pc = "done" /\ ca.nextCalls = <<ca.handler.error>>)

C14_Witness ==
    /\ ca.pc = "done"
    /\ ca.handler.mode = "rejects"
    /\ ca.handler.error = ApiError(403, "Forbidden", "")
    /\ ca.nextCalls = <<ApiError(403, "Forbidden", "")>>

(***************************************************************************)
(* Properties of server.ts                                                 *)
(***************************************************************************)
Events == DOMAIN srv.events

\* event i is of this kind and source
IsEv(i, kind, src) == srv.events[i].kind = kind /\ srv.events[i].src = src

\* server.close had not been called before event i: the listener was active
ActiveBefore(i) == \A j \in Events : j < i => srv.events[j].kind # "close"

\* an unhandled rejection occurred while the listener was active
RejectedWhileActive ==
    \E i \in Events : IsEv(i, "close", "unhandledRejection") /\ ActiveBefore(i)

\* an uncaught exception ended the process
EndedByException == \E i \in Events : IsEv(i, "exit", "uncaughtException")

\* C15, in every state: for a rejection that occurred while the listener was
\* active, the rejection is logged only after the close it asked for has
\* completed, and the exit of that path follows the log and has status 1
C15_State ==
    /\ \A i \in Events :
         (IsEv(i, "close", "unhandledRejection") /\ ActiveBefore(i)) =>
            \A j \in Events :
               (IsEv(j, "errorLog", "unhandledRejection")
                  /\ srv.events[j].arg = srv.events[i].arg) =>
                    \E c \in Events : i < c /\ c < j /\ srv.events[c].kind = "closed"
    /\ \A x \in Events :
         (IsEv(x, "exit", "unhandledRejection") /\ srv.server = "set") =>
            /\ srv.events[x].arg = 1
            /\ x > 1
            /\ IsEv(x - 1, "errorLog", "unhandledRejection")
            /\ \E c \in Events : c < x - 1 /\ srv.events[c].kind = "closed"

\* C15: after an unhandled rejection with the listener active, the listener
\* is closed, then the rejection is logged, then the process exits with
\* status 1, and all of it happens unless an uncaught exception ends the
\* process, with status 1, first
C15_CloseLogExit ==
    /\ []C15_State
    /\ RejectedWhileActive ~> (srv.state = "exited" /\ srv.exitCode = 1)
    /\ RejectedWhileActive ~>
         (\/ EndedByException
          \/ \E j \in Events : IsEv(j, "errorLog", "unhandledRejection"))

C15_Witness ==
    /\ srv.state = "exited"
    /\ srv.exitCode = 1
    /\ srv.rejections = 1
    /\ srv.sigterms = 0
    /\ Len(srv.events) >= 4
    /\ IsEv(Len(srv.events) - 3, "close", "unhandledRejection")
    /\ IsEv(Len(srv.events) - 2, "closed", "server")
    /\ IsEv(Len(srv.events) - 1, "errorLog", "unhandledRejection")
    /\ IsEv(Len(srv.events), "exit", "unhandledRejection")

\* SIGTERM was received while the listener was listening
SigtermWhileListening ==
    \E i \in Events :
        /\ IsEv(i, "infoLog", "SIGTERM")
        /\ ActiveBefore(i)
        /\ \E j \in Events : j < i /\ IsEv(j, "infoLog", "listening")

\* a rejection or an uncaught exception occurred
Faulted ==
    srv.rejections > 0 \/ \E i \in Events : srv.events[i].src = "uncaughtException"

\* C16, in every state: the SIGTERM handler logs receipt on the info channel
\* and then calls server.close, after which the listener accepts nothing; it
\* never ends the process; a process that got SIGTERM while listening and no
\* fault ends with status 0, after the close has completed
C16_State ==
    /\ \A i \in Events :
         (IsEv(i, "infoLog", "SIGTERM") /\ srv.server = "set") =>
            /\ i + 1 \in Events
            /\ IsEv(i + 1, "close", "SIGTERM")
    /\ \A i \in Events : srv.events[i].src = "SIGTERM" => srv.events[i].kind # "exit"
    /\ (\E i \in Events : IsEv(i, "close", "SIGTERM")) => srv.listener # "listening"
    /\ (srv.state = "exited" /\ SigtermWhileListening /\ ~Faulted) =>
            /\ srv.exitCode = 0
            /\ srv.listener = "closed"
            /\ srv.conns = 0

\* C16: SIGTERM in state Listening is logged, the listener is closed, and the
\* process ends once the connections have drained, with status 0 unless a
\* rejection or an uncaught exception ends it first
C16_SigtermShutdown ==
    /\ []C16_State
    /\ SigtermWhileListening ~> srv.state = "exited"
    /\ SigtermWhileListening ~> (srv.state = "exited" /\ (srv.exitCode = 0 \/ Faulted))

C16_Witness ==
    /\ srv.state = "exited"
    /\ srv.exitCode = 0
    /\ SigtermWhileListening
    /\ ~Faulted
    /\ IsEv(Len(srv.events), "exit", "natural")

\* C17: in every lifecycle state an uncaught exception is logged to the error
\* channel and the process then exits with status 1 at once, whatever the
\* listener is doing
C17_UncaughtExceptionExits ==
    \A i \in Events :
        IsEv(i, "errorLog", "uncaughtException") =>
            /\ i + 1 \in Events
            /\ srv.events[i + 1] = Ev("exit", "uncaughtException", 1)
            /\ srv.state = "exited"
            /\ srv.exitCode = 1

\* the exception came while the listener was closing, a connection still open
C17_Witness ==
    /\ srv.state = "exited"
    /\ srv.exitCode = 1
    /\ srv.listener = "closing"
    /\ srv.conns > 0
    /\ IsEv(Len(srv.events), "exit", "uncaughtException")

\* binding the listener failed: app.listen threw, or the bind error was
\* reported later
BindFailed ==
    srv.state # "loading" /\ (srv.server = "unset" \/ srv.listener = "failed")

\* C18: if binding fails, the error is logged and the process exits at once
\* with a nonzero status; it never stays running without a listener
C18_BindFailureExits ==
    BindFailed =>
        /\ srv.state = "exited"
        /\ srv.exitCode # 0
        /\ \E i \in Events : srv.events[i].kind = "errorLog"

\* C20: an unhandled rejection while server is unset ends the process at once
\* with status 1, and the rejection is not written to the error log
C20_RejectionWithoutServer ==
    (srv.server = "unset" /\ srv.rejections > 0) =>
        /\ srv.state = "exited"
        /\ srv.exitCode = 1
        /\ srv.rejections = 1
        /\ srv.events[Len(srv.events)] = Ev("exit", "unhandledRejection", 1)
        /\ \A i \in Events : ~IsEv(i, "errorLog", "unhandledRejection")

C20_Witness ==
    /\ srv.server = "unset"
    /\ srv.rejections = 1
    /\ srv.state = "exited"
    /\ srv.exitCode = 1

\* SIGTERM had closed the listener, and the close had completed, before
\* event i
ClosedBySigtermBefore(i) ==
    \E a, c \in Events :
        a < c /\ c < i /\ IsEv(a, "close", "SIGTERM") /\ IsEv(c, "closed", "server")

\* C21, in every state with the listener assigned: a process that had an
\* unhandled rejection never ends with status 0, in whatever order SIGTERM
\* and the rejections came, and a process that ended with status 0 had a
\* SIGTERM, no rejection and no uncaught exception
C21_State ==
    (srv.server = "set" /\ srv.state = "exited") =>
        /\ srv.rejections > 0 => srv.exitCode = 1
        /\ srv.exitCode = 0 =>
             /\ srv.sigterms > 0
             /\ \E i \in Events : IsEv(i, "close", "SIGTERM")
             /\ ~Faulted

\* C21: with the listener assigned, once an unhandled rejection has occurred
\* the process exits with status 1 and never with status 0, whether the
\* rejection came before SIGTERM or after SIGTERM had closed the listener;
\* status 0 is reached only with a SIGTERM and no rejection or uncaught
\* exception
C21_RejectionBeatsSigterm ==
    /\ []C21_State
    /\ (srv.server = "set" /\ srv.rejections > 0)
         ~> (srv.state = "exited" /\ srv.exitCode = 1)

\* the rejection came after SIGTERM had closed the listener, and its callback
\* ended the process
C21_Witness ==
    /\ srv.state = "exited"
    /\ srv.exitCode = 1
    /\ srv.sigterms > 0
    /\ IsEv(Len(srv.events), "exit", "unhandledRejection")
    /\ \E i \in Events :
         IsEv(i, "close", "unhandledRejection") /\ ClosedBySigtermBefore(i)

\* C22: when the process has ended through the close callback of a
\* rejection, every rejection had registered its own callback, the process
\* exited once, with status 1, and every rejection that occurred before the
\* exit is in the error log
C22_EveryRejectionLogged ==
    (/\ srv.state = "exited"
     /\ srv.server = "set"
     /\ IsEv(Len(srv.events), "exit", "unhandledRejection")) =>
        /\ srv.exitCode = 1
        /\ Cardinality({i \in Events : srv.events[i].kind = "exit"}) = 1
        /\ \A k \in 1..srv.rejections :
             /\ \E i \in Events : srv.events[i] = Ev("close", "unhandledRejection", k)
             /\ \E j \in Events : srv.events[j] = Ev("errorLog", "unhandledRejection", k)

(***************************************************************************)
(* Properties of the middleware stack                                      *)
(***************************************************************************)
\* C19: every request gets exactly one response, written by the matched
\* route, the global error handler or the 404 responder; every failure
\* reaches the global error handler, and the 404 responder does not run for a
\* request whose failure the global error handler handled
C19_ExactlyOneResponder ==
    \A r \in Requests :
        req[r].stage \in {"done", "threw"} =>
            /\ res[r].writes = 1
            /\ res[r].writer \in {"root", "globalErrorHandler", "notFound"}
            /\ req[r].error.kind # "none" => res[r].writer = "globalErrorHandler"

====
